---- MODULE Spec2Model ----
(***************************************************************************)
(* Model of dua-cli's interactive widgets (src/interactive/widgets.rs):    *)
(* SortMode, Footer::draw, MainWindow::draw and Entries::draw.             *)
(*                                                                         *)
(* Option<T> is modelled as a set with at most one element: None is {},    *)
(* Some(v) is {v}.  A Rect is [x, y, width, height].  A string is a        *)
(* sequence of one-character strings.  The tui Buffer is its area plus the *)
(* cells a widget has touched (an untouched cell is a default cell).       *)
(***************************************************************************)
EXTENDS Integers, Sequences, FiniteSets, TLC

VARIABLES
    tree,               \* Traversal.tree: [nodes, parent, size]
    fs_dirs,            \* nodes whose path is a directory when Path::is_dir asks
    root,               \* DisplayState.root
    selected,           \* DisplayState.selected : Option<TreeIndex>
    sorting,            \* DisplayState.sorting
    byte_format,        \* DisplayOptions.byte_format
    total_bytes,        \* Traversal.total_bytes : Option<u64>
    entries_traversed,  \* Traversal.entries_traversed
    overflow_checks,    \* the build: TRUE when integer overflow panics (debug)
    buf,                \* the tui Buffer: [area, cells]
    rows,               \* the list rows Entries::draw has put on the screen
                        \* (its cells of the buffer, row by row)
    outcome,            \* "idle" before a draw; then "ok", or the panic that
                        \* ended it: "assert_failed" or "overflow"
    op,                 \* the last operation and the Rect it was given
    start_mode,         \* the sort mode the session started with
    toggles             \* number of toggle_size calls so far

vars == <<tree, fs_dirs, root, selected, sorting, byte_format, total_bytes,
          entries_traversed, overflow_checks, buf, rows, outcome, op,
          start_mode, toggles>>

(***************************************************************************)
(* Bounds of the model.                                                    *)
(***************************************************************************)
MaxNodes == 5         \* nodes of the small trees of SpecEntries
MaxSize == 2          \* largest leaf size in them
MaxWide == 6          \* most children of a wide level of SpecEntries
MaxUnit == 1          \* largest leaf size in a wide level
EntryWidth == 4       \* width of the areas Entries draws into
MaxToggles == 60      \* toggle_size calls followed in SpecSort
MaxBytes == 2         \* largest known total_bytes
MaxEntries == 1       \* largest entries_traversed
BufWidth == 38        \* width of the buffer Footer draws into
BufHeight == 3        \* its height
MainNodes == 3        \* nodes of the trees of SpecMain
MainWidth == 3        \* widest terminal of SpecMain
MaxFrameHeight == 259 \* tallest terminal of SpecMain

(***************************************************************************)
(* Program constants.                                                      *)
(***************************************************************************)
MaxEntriesHeight == 256   \* Constraint::Max(256)
FooterHeight == 1         \* Constraint::Length(1) and the footer's assert!
Margin == 1               \* let margin = 1
U16 == 2 ^ 16             \* Rect's fields are u16

None == {}
Some(v) == {v}

Min(a, b) == IF a <= b THEN a ELSE b
Max(a, b) == IF a >= b THEN a ELSE b
Abs(a) == IF a >= 0 THEN a ELSE 0 - a

Rect(x, y, w, h) == [x |-> x, y |-> y, width |-> w, height |-> h]
Left(r) == r.x
Right(r) == r.x + r.width
Top(r) == r.y
Bottom(r) == r.y + r.height
ZeroRect == Rect(0, 0, 0, 0)

(***************************************************************************)
(* SortMode                                                                *)
(***************************************************************************)
SortMode == {"SizeDescending", "SizeAscending"}

SortModeDefault == "SizeDescending"

stuck_toggle(mode) == "SizeDescending"

toggle_size(mode) ==
    CASE mode = "SizeAscending" -> "SizeDescending"
      [] mode = "SizeDescending" -> "SizeAscending"

(***************************************************************************)
(* Tree: a directed graph with edges parent -> child.                      *)
(***************************************************************************)
Children(t, n) == {c \in t.nodes : t.parent[c] = Some(n)}

\* neighbors_directed(node_idx, Incoming).next().is_none()
is_top(t, n) == t.parent[n] = None

\* Trees on nodes 0 .. n-1: node 0 is the top, node 1 a directory in it, and
\* each further node is a leaf of node 0 or of node 1 with a size of its own.
\* A directory's size is the sum of its children's (the traversal's
\* aggregation).
RECURSIVE SumOver(_, _)
SumOver(S, f) ==
    IF S = {} THEN 0
    ELSE LET c == CHOOSE x \in S : TRUE IN f[c] + SumOver(S \ {c}, f)

MkTree(n, par, leaf) ==
    LET nodes == 0 .. (n - 1)
        parent == [c \in nodes |->
                     IF c = 0 THEN None ELSE IF c = 1 THEN Some(0) ELSE Some(par[c])]
        under1 == {c \in nodes : c >= 2 /\ par[c] = 1}
        under0 == {c \in nodes : c >= 2 /\ par[c] = 0}
        s1 == SumOver(under1, leaf)
        size == [c \in nodes |->
                   IF c = 0 THEN s1 + SumOver(under0, leaf)
                   ELSE IF c = 1 THEN s1 ELSE leaf[c]]
    IN [nodes |-> nodes, parent |-> parent, size |-> size]

\* The first leaves (2 .. j-1) lie in node 0, the others in node 1.
TreesOf(n, Sizes) ==
    {MkTree(n, [c \in 2 .. (n - 1) |-> IF c < j THEN 0 ELSE 1], leaf) :
        j \in 2 .. n, leaf \in [2 .. (n - 1) -> Sizes]}

\* One level of k leaves, all in node 1, for every k up to maxk.
LevelTrees(maxk, Sizes) ==
    UNION {{MkTree(k + 2, [c \in 2 .. (k + 1) |-> 1], leaf) :
                leaf \in [2 .. (k + 1) -> Sizes]} : k \in 0 .. maxk}

(***************************************************************************)
(* crate::sorted_entries: the direct children of a node with their sizes,  *)
(* by size in the order of the mode; equal sizes in the order of handles.  *)
(***************************************************************************)
Before(t, mode, c, d) ==
    IF t.size[c] = t.size[d] THEN c <= d
    ELSE IF mode = "SizeDescending" THEN t.size[c] > t.size[d]
    ELSE t.size[c] < t.size[d]

RECURSIVE SortSet(_, _, _)
SortSet(t, mode, S) ==
    IF S = {} THEN <<>>
    ELSE LET first == CHOOSE c \in S : \A d \in S : Before(t, mode, c, d)
         IN <<first>> \o SortSet(t, mode, S \ {first})

sorted_entries(t, node_idx, mode) == SortSet(t, mode, Children(t, node_idx))

(***************************************************************************)
(* Formatting                                                              *)
(***************************************************************************)
DigitChar(d) == <<"0", "1", "2", "3", "4", "5", "6", "7", "8", "9">>[d + 1]

RECURSIVE Digits(_)
Digits(n) == IF n < 10 THEN <<DigitChar(n)>>
             ELSE Digits(n \div 10) \o <<DigitChar(n % 10)>>

RECURSIVE PadLeft(_, _)
PadLeft(s, w) == IF Len(s) >= w THEN s ELSE PadLeft(<<" ">> \o s, w)

RECURSIVE TrimStart(_)
TrimStart(s) == IF s # <<>> /\ Head(s) = " " THEN TrimStart(Tail(s)) ELSE s

RECURSIVE TrimEnd(_)
TrimEnd(s) == IF s # <<>> /\ s[Len(s)] = " "
              THEN TrimEnd(SubSeq(s, 1, Len(s) - 1)) ELSE s

\* str::trim
Trim(s) == TrimEnd(TrimStart(s))

\* ByteFormat::display: the byte count right-aligned, then the unit.
ByteFormat == {"Bytes", "Metric"}

Display(format, b) ==
    IF format = "Bytes" THEN PadLeft(Digits(b), 4) \o <<" ", "b">>
    ELSE PadLeft(Digits(b) \o <<".", "0", "0">>, 6) \o <<" ", "B">>

F64PercentTruncated(size, total) ==
    IF total = 0 THEN [nan |-> TRUE, hundredths |-> 0]
    ELSE [nan |-> FALSE, hundredths |-> (10000 * size) \div total]

\* (w.size as f64 / total as f64) * 100.0 : 0.0 / 0.0 is NaN; otherwise the
\* value, kept here in hundredths of a percent as "{:.02}" rounds it (to the
\* nearest; a value exactly halfway needs a total that is a multiple of 32).
F64Percent(size, total) ==
    IF total = 0 THEN [nan |-> TRUE, hundredths |-> 0]
    ELSE [nan |-> FALSE, hundredths |-> (20000 * size + total) \div (2 * total)]

\* "{:>5.02}"
FormatPercent(p) ==
    IF p.nan THEN PadLeft(<<"N", "a", "N">>, 5)
    ELSE PadLeft(Digits(p.hundredths \div 100) \o <<".">>
                 \o <<DigitChar((p.hundredths \div 10) % 10),
                      DigitChar(p.hundredths % 10)>>, 5)

(***************************************************************************)
(* tui: Block::inner with Borders::ALL, the Buffer, List::draw,            *)
(* Layout::split.                                                          *)
(***************************************************************************)
Inner(area) ==
    IF area.width < 2 \/ area.height < 2 THEN ZeroRect
    ELSE Rect(area.x + 1, area.y + 1, area.width - 2, area.height - 2)

DefaultCell == [symbol |-> " ", fg |-> "Reset", bg |-> "Reset"]

EmptyBuffer(area) == [area |-> area, cells |-> <<>>]

CellAt(b, p) == IF p \in DOMAIN b.cells THEN b.cells[p] ELSE DefaultCell

Positions(area) ==
    {<<x, y>> : x \in Left(area) .. (Right(area) - 1),
                y \in Top(area) .. (Bottom(area) - 1)}

\* Widget::background: every cell of the area gets the colour.
Background(b, area, color) ==
    [b EXCEPT !.cells =
        [p \in (DOMAIN b.cells) \cup Positions(area) |->
            IF p \in Positions(area) THEN [CellAt(b, p) EXCEPT !.bg = color]
            ELSE b.cells[p]]]

\* Buffer::set_stringn: at most min(limit, buffer's right edge - x) symbols,
\* from (x, y) rightwards.
SetStringN(b, x, y, string, limit, style) ==
    LET n == Max(0, Min(Len(string), Min(limit, Right(b.area) - x)))
        at == {<<x + i - 1, y>> : i \in 1 .. n}
    IN [b EXCEPT !.cells =
           [p \in (DOMAIN b.cells) \cup at |->
               IF p \in at
               THEN [symbol |-> string[p[1] - x + 1], fg |-> style.fg, bg |-> style.bg]
               ELSE b.cells[p]]]

\* List::draw with a Block and Corner::TopLeft: the block's interior holds
\* one item per line, from its top line down, as many as it has lines.
ListDrawBottomUp(items, area) ==
    LET list_area == Inner(area)
        n == Min(Len(items), list_area.height)
    IN IF list_area.width < 1 \/ list_area.height < 1 THEN <<>>
       ELSE [i \in 1 .. n |-> [y |-> list_area.y + i - 1] @@ items[n + 1 - i]]

ListDraw(items, area) ==
    LET list_area == Inner(area)
    IN IF list_area.width < 1 \/ list_area.height < 1 THEN <<>>
       ELSE [i \in 1 .. Min(Len(items), list_area.height) |->
                [y |-> list_area.y + i - 1] @@ items[i]]

\* Layout::split, Direction::Vertical, [Max(MaxEntriesHeight), Length(1)]:
\* the two regions are stacked and fill the area (required); the upper one's
\* height is at most the cap and the lower one's is FooterHeight (weak).
\* The solver returns a split with the least total violation of the weak
\* constraints; when several have it, which one is not determined.
SplitCost(area, h0) ==
    Max(0, h0 - MaxEntriesHeight) + Abs((area.height - h0) - FooterHeight)

\* SplitCost is convex in h0, so a height no worse than its two neighbours
\* has the least cost.
LeastCost(area, h) ==
    /\ h > 0 => SplitCost(area, h) <= SplitCost(area, h - 1)
    /\ h < area.height => SplitCost(area, h) <= SplitCost(area, h + 1)

Split(area) ==
    {<<Rect(area.x, area.y, area.width, h0),
       Rect(area.x, area.y + h0, area.width, area.height - h0)>> :
        h0 \in {h \in 0 .. area.height : LeastCost(area, h)}}

(***************************************************************************)
(* Entries::draw                                                           *)
(***************************************************************************)
HighlightStyle == [fg |-> "Black", bg |-> "White"]
NormalStyle == [fg |-> "White", bg |-> "Reset"]

RowStyleAll(sel, node_idx) == IF sel # None THEN HighlightStyle ELSE NormalStyle

\* match selected { Some(idx) if *idx == *node_idx => .., _ => .. }
RowStyle(sel, node_idx) ==
    IF sel = Some(node_idx) THEN HighlightStyle ELSE NormalStyle

MarkerAnyRoot(t, dirs, rt, node_idx) == IF node_idx \in dirs THEN "/" ELSE " "

\* match path_of(*node_idx) { ref p if p.is_dir() && !is_top(*root) => "/", _ => " " }
Marker(t, dirs, rt, node_idx) ==
    IF node_idx \in dirs /\ ~is_top(t, rt) THEN "/" ELSE " "

\* let total: u64 = entries.iter().map(|(_, w)| w.size).sum();
RECURSIVE SumSizes(_, _)
SumSizes(t, entries) ==
    IF entries = <<>> THEN 0
    ELSE t.size[Head(entries)] + SumSizes(t, Tail(entries))

\* The items handed to List::new, one per entry of sorted_entries: the
\* pieces of the label "{} | {:>5.02}% | {}{}" and the style.  The name is
\* the node's handle.  (The block's title is not part of a row.)
EntryItems(t, rt, mode, sel, format, dirs) ==
    LET entries == sorted_entries(t, rt, mode)
        total == SumSizes(t, entries)
    IN [i \in 1 .. Len(entries) |->
          LET node_idx == entries[i]
              value == F64Percent(t.size[node_idx], total)
          IN [node |-> node_idx,
              size |-> t.size[node_idx],
              bytes |-> Display(format, t.size[node_idx]),
              value |-> value,
              percent |-> FormatPercent(value),
              marker |-> Marker(t, dirs, rt, node_idx),
              name |-> node_idx,
              style |-> RowStyle(sel, node_idx)]]

entries_draw(t, rt, mode, sel, format, dirs, area) ==
    ListDraw(EntryItems(t, rt, mode, sel, format, dirs), area)

(***************************************************************************)
(* Footer::draw                                                            *)
(***************************************************************************)
TotalLabel == <<"T", "o", "t", "a", "l", " ", "d", "i", "s", "k", " ",
                "u", "s", "a", "g", "e", ":", " ">>
EntriesLabel == <<" ", " ", "E", "n", "t", "r", "i", "e", "s", ":", " ">>
Placeholder == <<"-">>

FooterStyle == [fg |-> "Black", bg |-> "White"]

FooterTextZeroAsUnknown(total, traversed, format) ==
    TotalLabel
    \o (IF total = None \/ total = Some(0) THEN Placeholder
        ELSE Trim(Display(format, CHOOSE b \in total : TRUE)))
    \o EntriesLabel \o Digits(traversed)

\* format!("Total disk usage: {}  Entries: {}", match self.total_bytes {..}, ..)
FooterText(total, traversed, format) ==
    TotalLabel
    \o (IF total = None THEN Placeholder
        ELSE Trim(Display(format, CHOOSE b \in total : TRUE)))
    \o EntriesLabel \o Digits(traversed)

FooterAssertAtMost(area) == area.height <= FooterHeight

\* assert!(area.height == 1, "The footer must be a line")
FooterAssert(area) == area.height = FooterHeight

\* Footer::draw on buffer b: the buffer it leaves and how it ended.
\* area.width - margin is a u16 subtraction: below zero it panics in a build
\* with overflow checks and wraps around in one without.
footer_draw(b, area, total, traversed, format, checks) ==
    IF ~FooterAssert(area) THEN [buf |-> b, outcome |-> "assert_failed"]
    ELSE LET filled == Background(b, area, "White")
         IN IF area.width < Margin /\ checks
            THEN [buf |-> filled, outcome |-> "overflow"]
            ELSE [buf |-> SetStringN(filled, area.x + Margin, area.y,
                                     FooterText(total, traversed, format),
                                     (area.width - Margin) % U16, FooterStyle),
                  outcome |-> "ok"]

(***************************************************************************)
(* MainWindow::draw                                                        *)
(***************************************************************************)
FrameRegionsSwapped(area) == {<<r[2], r[1]>> : r \in Split(area)}

\* let (entries, footer) = (regions[0], regions[1]);
FrameRegions(area) == Split(area)

NoOp == [name |-> "none", area |-> ZeroRect, entries |-> ZeroRect, footer |-> ZeroRect]

(***************************************************************************)
(* Actions                                                                 *)
(***************************************************************************)
ToggleSize ==
    /\ outcome = "idle"
    /\ toggles < MaxToggles
    /\ sorting' = toggle_size(sorting)
    /\ toggles' = toggles + 1
    /\ UNCHANGED <<tree, fs_dirs, root, selected, byte_format, total_bytes,
                   entries_traversed, overflow_checks, buf, rows, outcome, op,
                   start_mode>>

EntriesDraw(area) ==
    /\ outcome = "idle"
    /\ rows' = entries_draw(tree, root, sorting, selected, byte_format, fs_dirs, area)
    /\ outcome' = "ok"
    /\ op' = [NoOp EXCEPT !.name = "Entries", !.area = area, !.entries = area]
    /\ UNCHANGED <<tree, fs_dirs, root, selected, sorting, byte_format, total_bytes,
                   entries_traversed, overflow_checks, buf, start_mode, toggles>>

FooterDraw(area) ==
    /\ outcome = "idle"
    /\ LET r == footer_draw(buf, area, total_bytes, entries_traversed,
                            byte_format, overflow_checks)
       IN buf' = r.buf /\ outcome' = r.outcome
    /\ op' = [NoOp EXCEPT !.name = "Footer", !.area = area, !.footer = area]
    /\ UNCHANGED <<tree, fs_dirs, root, selected, sorting, byte_format, total_bytes,
                   entries_traversed, overflow_checks, rows, start_mode, toggles>>

\* The frame is the whole buffer; Entries draws first, then Footer.
MainWindowDraw ==
    /\ outcome = "idle"
    /\ \E regions \in FrameRegions(buf.area) :
          LET r == footer_draw(buf, regions[2], total_bytes, entries_traversed,
                               byte_format, overflow_checks)
          IN /\ rows' = entries_draw(tree, root, sorting, selected, byte_format,
                                     fs_dirs, regions[1])
             /\ buf' = r.buf
             /\ outcome' = r.outcome
             /\ op' = [name |-> "MainWindow", area |-> buf.area,
                       entries |-> regions[1], footer |-> regions[2]]
    /\ UNCHANGED <<tree, fs_dirs, root, selected, sorting, byte_format, total_bytes,
                   entries_traversed, overflow_checks, start_mode, toggles>>

(***************************************************************************)
(* Initial states: the inputs of a frame, before anything is drawn.        *)
(***************************************************************************)
BareTree == MkTree(2, <<>>, <<>>)

Idle ==
    /\ rows = <<>>
    /\ outcome = "idle"
    /\ op = NoOp
    /\ start_mode = sorting
    /\ toggles = 0

NoTraversal ==
    /\ total_bytes = None
    /\ entries_traversed = 0
    /\ overflow_checks = TRUE
    /\ buf = EmptyBuffer(ZeroRect)

InitSort ==
    /\ tree = BareTree /\ fs_dirs = {} /\ root = 0 /\ selected = None
    /\ sorting \in SortMode
    /\ byte_format = "Bytes"
    /\ NoTraversal /\ Idle

\* Small trees with every combination of leaf sizes.
InitSizes ==
    /\ tree \in TreesOf(MaxNodes, 0 .. MaxSize)
    /\ fs_dirs = {} /\ selected = None
    /\ root \in {0, 1}
    /\ sorting \in SortMode
    /\ byte_format = "Bytes"

\* Small trees with every selection.
InitSelection ==
    /\ tree \in TreesOf(MaxNodes, {0, 1})
    /\ fs_dirs = {}
    /\ selected \in {None} \cup {Some(n) : n \in tree.nodes}
    /\ root \in {0, 1}
    /\ sorting \in SortMode
    /\ byte_format = "Bytes"

\* Small trees with every set of directories.
InitMarkers ==
    /\ tree \in TreesOf(MaxNodes, {1})
    /\ fs_dirs \in SUBSET tree.nodes
    /\ selected = None
    /\ root \in {0, 1}
    /\ sorting = SortModeDefault
    /\ byte_format \in ByteFormat

\* One level of up to MaxWide children.
InitLevel ==
    /\ tree \in LevelTrees(MaxWide, 0 .. MaxUnit)
    /\ fs_dirs = {1} /\ selected = None
    /\ root = 1
    /\ sorting \in SortMode
    /\ byte_format = "Bytes"

\* Three children of 600, 300 and 100 bytes, in any order of handles.
InitScenario ==
    /\ tree \in {MkTree(5, [c \in 2 .. 4 |-> 1], leaf) :
                    leaf \in {f \in [2 .. 4 -> {600, 300, 100}] :
                                 \A c, d \in 2 .. 4 : c # d => f[c] # f[d]}}
    /\ fs_dirs = {1}
    /\ selected \in {None, Some(3)}
    /\ root = 1
    /\ sorting \in SortMode
    /\ byte_format = "Bytes"

InitEntries ==
    /\ InitSizes \/ InitSelection \/ InitMarkers \/ InitLevel \/ InitScenario
    /\ NoTraversal /\ Idle

InitFooter ==
    /\ tree = BareTree /\ fs_dirs = {} /\ root = 0 /\ selected = None
    /\ sorting = SortModeDefault
    /\ byte_format \in ByteFormat
    /\ total_bytes \in {None} \cup {Some(b) : b \in 0 .. MaxBytes}
    /\ entries_traversed \in 0 .. MaxEntries
    /\ overflow_checks \in BOOLEAN
    /\ buf = EmptyBuffer(Rect(0, 0, BufWidth, BufHeight))
    /\ Idle

InitMain ==
    /\ tree \in TreesOf(MainNodes, {1})
    /\ fs_dirs = {1} /\ root = 0
    /\ selected \in {None, Some(1)}
    /\ sorting = SortModeDefault
    /\ byte_format = "Bytes"
    /\ total_bytes \in {None, Some(MaxBytes)}
    /\ entries_traversed = MaxEntries
    /\ overflow_checks \in BOOLEAN
    /\ buf \in {EmptyBuffer(Rect(0, 0, w, h)) :
                    w \in {0, MainWidth}, h \in 0 .. MaxFrameHeight}
    /\ Idle

\* The areas the widgets are asked to draw into.
EntryAreas ==
    {Rect(0, 0, w, h) : w \in {2, EntryWidth}, h \in 0 .. (MaxWide + 2)}

FooterAreas ==
    {Rect(x, y, w, h) : x \in 0 .. 1, y \in 0 .. 1,
                        w \in 0 .. (BufWidth - 1), h \in 0 .. (BufHeight - 1)}

NextSort == ToggleSize
NextEntries == \E area \in EntryAreas : EntriesDraw(area)
NextFooter == \E area \in FooterAreas : FooterDraw(area)
NextMain == MainWindowDraw

SpecSort == InitSort /\ [][NextSort]_vars
SpecEntries == InitEntries /\ [][NextEntries]_vars
SpecFooter == InitFooter /\ [][NextFooter]_vars
SpecMain == InitMain /\ [][NextMain]_vars

(***************************************************************************)
(* What the last draw left on the screen.                                  *)
(***************************************************************************)
DrewEntries == op.name = "Entries"
DrewFooter == op.name = "Footer"
DrewMain == op.name = "MainWindow"

Kids == Children(tree, root)
LevelTotal == SumOver(Kids, tree.size)
RowNodes == {rows[i].node : i \in DOMAIN rows}

\* Lines the list has for its items in the area Entries drew into.
ListLines ==
    IF op.entries.width < 3 \/ op.entries.height < 3 THEN 0
    ELSE op.entries.height - 2

WholeLevelDrawn == Len(rows) = Cardinality(Kids)

RECURSIVE SumHundredths(_)
SumHundredths(rs) ==
    IF rs = <<>> THEN 0 ELSE Head(rs).value.hundredths + SumHundredths(Tail(rs))

Highlighted == {i \in DOMAIN rows : rows[i].style = [fg |-> "Black", bg |-> "White"]}

Reverse(q) == [i \in 1 .. Len(q) |-> q[Len(q) + 1 - i]]

\* The cells of the buffer that hold text of the footer, and the text.
TextCells == {p \in DOMAIN buf.cells : buf.cells[p].fg = "Black"}
FooterShown ==
    [i \in 1 .. Cardinality(TextCells) |->
        CellAt(buf, <<op.footer.x + i, op.footer.y>>).symbol]

(***************************************************************************)
(* C8                                                                      *)
(***************************************************************************)
\* C8: after n calls of toggle_size the mode is the starting mode if and
\* only if n is even, and it is always one of the two modes.
ToggleParity ==
    /\ sorting \in {"SizeDescending", "SizeAscending"}
    /\ (sorting = start_mode) <=> (toggles % 2 = 0)

ToggleParityWitness ==
    /\ toggles = 3
    /\ start_mode = "SizeDescending"
    /\ sorting = "SizeAscending"

(***************************************************************************)
(* C5, C6, C10: Footer::draw                                               *)
(***************************************************************************)
\* C5: a Footer draw into a region whose height is not 1 fails its assertion
\* and leaves the buffer as it was; with height 1 the assertion passes.
FooterHeightContract ==
    [][(outcome = "idle" /\ op'.name = "Footer") =>
          IF op'.area.height # 1
          THEN outcome' = "assert_failed" /\ buf' = buf
          ELSE outcome' # "assert_failed"]_vars

FooterHeightWitness ==
    /\ DrewFooter
    /\ op.area.height = 2 /\ op.area.width > 1
    /\ outcome = "assert_failed"

\* C6: the text a completed Footer draw shows is "Total disk usage: <X>
\* Entries: <N>", whole when the region has the room and its beginning
\* otherwise, where <X> is "-" exactly when total_bytes is None and the
\* formatted total otherwise, and <N> is entries_traversed.
FooterTextShown ==
    (DrewFooter /\ outcome = "ok") =>
        LET known == IF total_bytes = None THEN <<"-">>
                     ELSE Trim(Display(byte_format, CHOOSE b \in total_bytes : TRUE))
            full == TotalLabel \o known \o EntriesLabel \o Digits(entries_traversed)
        IN /\ FooterShown = SubSeq(full, 1, Len(FooterShown))
           /\ op.area.width > Len(full) => FooterShown = full
           /\ Len(FooterShown) > Len(TotalLabel) =>
                 ((FooterShown[Len(TotalLabel) + 1] = "-") <=> (total_bytes = None))

FooterTextWitness ==
    /\ DrewFooter /\ outcome = "ok"
    /\ total_bytes = Some(0)
    /\ byte_format = "Metric"
    /\ SubSeq(FooterShown, Len(TotalLabel) + 1, Len(FooterShown))
         = <<"0", ".", "0", "0", " ", "B">> \o EntriesLabel \o <<"1">>

\* C10: a Footer draw into a one-row region of width w never overflows in
\* w - margin and writes its text only in the region's row, from one column
\* right of its left edge and not past its right edge.
FooterTextInsideRegion ==
    (DrewFooter /\ outcome # "assert_failed") =>
        /\ outcome = "ok"
        /\ TextCells \subseteq
              {<<x, op.area.y>> : x \in (op.area.x + 1) .. (Right(op.area) - 1)}
        /\ Cardinality(TextCells) <= Max(0, op.area.width - 1)

(***************************************************************************)
(* C9: MainWindow::draw                                                    *)
(***************************************************************************)
FrameSplitOk ==
    /\ op.footer.height = 1
    /\ op.entries.height <= 256
    /\ op.entries.y >= op.area.y
    /\ Bottom(op.entries) <= op.footer.y
    /\ Bottom(op.footer) <= Bottom(op.area)
    /\ op.entries.x = op.area.x /\ op.footer.x = op.area.x
    /\ op.entries.width = op.area.width /\ op.footer.width = op.area.width
    /\ outcome # "assert_failed"

ZeroTotalShowsZero ==
    (DrewEntries /\ LevelTotal = 0) =>
        \A i \in DOMAIN rows :
            /\ ~rows[i].value.nan
            /\ rows[i].percent = <<" ", "0", ".", "0", "0">>

\* C2: a row carries the marker "/" if and only if its child is a directory
\* and the viewed root has an incoming edge; otherwise it carries " ".
MarkerRule ==
    DrewEntries =>
        \A i \in DOMAIN rows :
            /\ rows[i].marker \in {"/", " "}
            /\ (rows[i].marker = "/") <=>
                   (rows[i].node \in fs_dirs /\ tree.parent[root] # {})

MarkerWitness ==
    /\ DrewEntries
    /\ tree.parent[root] = {}
    /\ \E i \in DOMAIN rows : rows[i].node \in fs_dirs /\ rows[i].marker = " "
    /\ \E i \in DOMAIN rows : rows[i].node \notin fs_dirs

InModeOrder(a, b) == IF sorting = "SizeDescending" THEN a >= b ELSE a <= b

RowSizes == [i \in DOMAIN rows |-> rows[i].size]

\* C3 as stated: the rows are exactly the direct children of root, each
\* once, in the size order of the mode.
RowsAreAllChildren ==
    DrewEntries =>
        /\ RowNodes = Kids
        /\ Len(rows) = Cardinality(Kids)
        /\ \A i \in 1 .. (Len(rows) - 1) : InModeOrder(rows[i].size, rows[i + 1].size)

\* C3, amended: the rows are the first children of root in the size order of
\* the mode, each once, one per line of the list from its top line down, as
\* many as the list has lines; when it has a line for every child they are
\* exactly the children, and the other mode gives the reverse order of sizes
\* with the same percentage for each child.
RowsAreFirstChildren ==
    DrewEntries =>
        /\ Len(rows) = Min(Cardinality(Kids), ListLines)
        /\ \A i \in DOMAIN rows :
              /\ rows[i].node \in Kids
              /\ rows[i].size = tree.size[rows[i].node]
              /\ rows[i].y = op.area.y + i
        /\ \A i, j \in DOMAIN rows : i # j => rows[i].node # rows[j].node
        /\ \A i \in 1 .. (Len(rows) - 1) : InModeOrder(rows[i].size, rows[i + 1].size)
        /\ \A c \in Kids \ RowNodes :
              \A i \in DOMAIN rows : InModeOrder(rows[i].size, tree.size[c])
        /\ WholeLevelDrawn =>
              LET other == EntryItems(tree, root, toggle_size(sorting), selected,
                                      byte_format, fs_dirs)
              IN /\ RowNodes = Kids
                 /\ RowSizes = Reverse([i \in DOMAIN other |-> other[i].size])
                 /\ \A i \in DOMAIN rows : \A j \in DOMAIN other :
                       rows[i].node = other[j].node => rows[i].percent = other[j].percent

RowsWitness ==
    /\ DrewEntries /\ WholeLevelDrawn
    /\ sorting = "SizeAscending"
    /\ RowSizes = <<100, 300, 600>>
    /\ rows[3].node < rows[2].node
    /\ [i \in DOMAIN rows |-> rows[i].percent]
         = << <<"1", "0", ".", "0", "0">>, <<"3", "0", ".", "0", "0">>,
              <<"6", "0", ".", "0", "0">> >>

IsHighlight(style) == style = [fg |-> "Black", bg |-> "White"]
IsNormal(style) == style = [fg |-> "White", bg |-> "Reset"]

\* C4 as stated: exactly one row is highlighted when selected is a direct
\* child of root, none otherwise, and every other row has the default
\* palette.
OneHighlightPerChild ==
    DrewEntries =>
        /\ Cardinality(Highlighted) = (IF selected \cap Kids # {} THEN 1 ELSE 0)
        /\ \A i \in DOMAIN rows \ Highlighted : IsNormal(rows[i].style)

\* C4, amended: exactly one row is highlighted, the selected child's, when
\* selected is a direct child of root that has a row in the frame (always,
\* when the list has a line for every child); none when selected is None,
\* is not a direct child, or has no row; every other row has the default
\* palette.
OneHighlightPerRow ==
    DrewEntries =>
        /\ \A i \in DOMAIN rows :
              IF rows[i].node \in selected THEN IsHighlight(rows[i].style)
              ELSE IsNormal(rows[i].style)
        /\ Cardinality(Highlighted) = (IF selected \cap RowNodes # {} THEN 1 ELSE 0)
        /\ selected \cap Kids = {} => Highlighted = {}
        /\ (WholeLevelDrawn /\ selected \cap Kids # {}) => Cardinality(Highlighted) = 1

HighlightWitness ==
    /\ DrewEntries
    /\ Len(rows) = 3
    /\ Highlighted = {2}
    /\ selected = Some(rows[2].node)

\* C7 as stated: when the level total is above zero, the percentages of the
\* rows sum to 100.00 within 0.01.
PercentSumWithinOne ==
    (DrewEntries /\ LevelTotal > 0) => Abs(SumHundredths(rows) - 10000) <= 1

\* C7, amended: when the level total is above zero and every child has a
\* row, the percentages sum to 100.00 within 0.005 per row.
PercentSumWithinHalfPerRow ==
    (DrewEntries /\ LevelTotal > 0 /\ WholeLevelDrawn) =>
        /\ \A i \in DOMAIN rows : ~rows[i].value.nan
        /\ 2 * Abs(SumHundredths(rows) - 10000) <= Len(rows)

PercentSumWitness ==
    /\ DrewEntries /\ WholeLevelDrawn
    /\ Len(rows) = 6
    /\ \A i \in DOMAIN rows : rows[i].percent = <<"1", "6", ".", "6", "7">>
    /\ SumHundredths(rows) = 10002

====
